---------------------------- MODULE Spec2Model ----------------------------
(***************************************************************************)
(* apt-rollback: reverts the dpkg operations logged after a timestamp.     *)
(*                                                                         *)
(* The model follows src/apt-rollback.py: get_actions (the merge of the    *)
(* rotated dpkg.log* files, newest first, cut at the timestamp),           *)
(* the snapshot main folds the actions into, download_package (run by the  *)
(* ThreadPoolExecutor, one future per target that is not an install) and   *)
(* the rest of main (the report of failed downloads, the dpkg command).    *)
(*                                                                         *)
(* A log line is the sequence of its space-separated fields: date, time,   *)
(* action and the rest; the empty sequence is an empty line, and a line of *)
(* three fields has a timestamp and an action but no rest.  Dates and      *)
(* times are numbers, a timestamp '{date} {time}' is the pair of them and  *)
(* Python's string comparison of two timestamps of the fixed format is the *)
(* lexicographic comparison of the pairs.                                  *)
(***************************************************************************)
EXTENDS Integers, Sequences, FiniteSets, TLC

VARIABLES
    log_files,            \* os.scandir('/var/log'), filtered: the files' lines, in listing order
    until,                \* args.timestamp
    force,                \* args.force
    dir,                  \* the names of the files in download_dir
    pc,                   \* where main is
    scan_i,               \* get_actions, first loop: the next entry of log_files
    sorted_timestamps,    \* get_actions: sorted_timestamps
    timestamp_to_file,    \* get_actions: timestamp_to_file, as <<timestamp, entry>> pairs
    pos,                  \* get_actions, second loop: <<file, line>> being visited
    yielded,              \* the actions get_actions has yielded so far
    error,                \* the exception that ended the run, "none" if none did
    snapshot,             \* main: snapshot, an insertion-ordered dict as <<key, action>> pairs
    futures,              \* main: futures, the tasks as <<key, state>> pairs
    failed,               \* main: failed
    printed,              \* what main printed
    exit_code,            \* the status the run ended with, RUNNING before
    system_calls,         \* the commands passed to os.system
    run,                  \* how many times the command has been run
    fetched_before        \* the files fetched by earlier runs

vars == <<log_files, until, force, dir, pc, scan_i, sorted_timestamps,
          timestamp_to_file, pos, yielded, error, snapshot, futures, failed,
          printed, exit_code, system_calls, run, fetched_before>>

log_vars == <<scan_i, sorted_timestamps, timestamp_to_file, pos, yielded, snapshot>>
pool_vars == <<futures, failed, dir>>
out_vars == <<printed, exit_code, system_calls>>
arg_vars == <<log_files, until, force, run, fetched_before>>

-----------------------------------------------------------------------------
(* Bounds of the model. *)

MaxFiles == 3        \* log files in /var/log
MaxLines == 3        \* lines in all the log files together
MaxRunFiles == 1     \* log files, in the runs of the whole command
MaxRunLines == 2     \* lines in them
MaxRuns == 2         \* runs of the command on the same download_dir

-----------------------------------------------------------------------------
(* The log lines the files are made of. *)

NONE == "<none>"

\* exit_code while the command runs
RUNNING == -1

Timestamps == {<<1, 0>>, <<1, 1>>, <<2, 0>>}

LogLines ==
    { <<>>,
      <<1, 0, "install", "p1:a1", NONE, "1">>,
      <<1, 1, "status", "installed", "p1:a1", "1">>,
      <<1, 1, "upgrade", "p1:a1", "1", "2">>,
      <<2, 0, "remove", "p1:a2", "2", NONE>>,
      <<2, 0, "purge", "p2:a1", "1", NONE>>,
      <<2, 0, "startup">> }

Packages == {"p1", "p2"}
Archs == {"a1", "a2"}
Versions == {"1", "2"}

\* sizes[1] + ... + sizes[n]
RECURSIVE SumTo(_, _)
SumTo(sizes, n) == IF n = 0 THEN 0 ELSE sizes[n] + SumTo(sizes, n - 1)

\* The numbers of lines of at most maxFiles files that hold at most maxLines lines.
FileSizes(maxFiles, maxLines) ==
    UNION {{sizes \in [1..n -> 0..maxLines] : SumTo(sizes, n) <= maxLines} : n \in 0..maxFiles}

\* The files of these sizes that hold these lines, one file after the other.
Cut(lines, sizes) ==
    [i \in 1..Len(sizes) |->
        SubSeq(lines, SumTo(sizes, i - 1) + 1, SumTo(sizes, i))]

\* log_files is a directory listing of at most maxFiles files of at most maxLines lines.
Listing(maxFiles, maxLines) ==
    \E sizes \in FileSizes(maxFiles, maxLines) :
        \E lines \in [1..SumTo(sizes, Len(sizes)) -> LogLines] :
            log_files = Cut(lines, sizes)

-----------------------------------------------------------------------------
(* Python's list, str and dict operations. *)

Min(a, b) == IF a < b THEN a ELSE b

Reversed(s) == [i \in 1..Len(s) |-> s[Len(s) + 1 - i]]

\* list.insert(i, x), i counted from 0
Insert(s, i, x) == SubSeq(s, 1, i) \o <<x>> \o SubSeq(s, i + 1, Len(s))

\* '{} {}'.format(date, time) < other, on timestamps of the fixed format
TsLess(a, b) == a[1] < b[1] \/ (a[1] = b[1] /\ a[2] < b[2])

\* bisect.bisect_left(a, x) on a sorted list: the first place x can go
bisect_left(a, x) ==
    CHOOSE i \in 0..Len(a) :
        /\ \A j \in 1..i : TsLess(a[j], x)
        /\ \A j \in (i + 1)..Len(a) : ~TsLess(a[j], x)

\* len(line.strip().split(' ', maxsplit)): an empty line splits into ['']
NumParts(line, maxsplit) ==
    IF Len(line) = 0 THEN 1 ELSE Min(Len(line), maxsplit + 1)

\* package_arch.split(':'), for names that hold no colon themselves
SplitColon(s) ==
    IF \E pa \in Packages \X Archs : s = pa[1] \o ":" \o pa[2]
    THEN CHOOSE pa \in Packages \X Archs : s = pa[1] \o ":" \o pa[2]
    ELSE <<s>>

DictKeys(d) == [i \in 1..Len(d) |-> d[i][1]]
DictValues(d) == [i \in 1..Len(d) |-> d[i][2]]
DictHas(d, k) == \E i \in 1..Len(d) : d[i][1] = k
DictGet(d, k) == d[CHOOSE i \in 1..Len(d) : d[i][1] = k][2]

\* d[k] = v: a key already in the dict keeps its place
DictSet(d, k, v) ==
    IF DictHas(d, k)
    THEN [i \in 1..Len(d) |-> IF d[i][1] = k THEN <<k, v>> ELSE d[i]]
    ELSE Append(d, <<k, v>>)

\* del d[k]
DictDel(d, k) == SelectSeq(d, LAMBDA e : e[1] # k)


-----------------------------------------------------------------------------
(* get_actions *)

APPLICABLE == {"install", "upgrade", "remove", "purge"}

\* '{} {}'.format(date, time)
Timestamp(line) == <<line[1], line[2]>>

\* A variant of Older that also cuts off the line dated at the cutoff.
OlderOrEqual(timestamp, cutoff) == TsLess(timestamp, cutoff) \/ timestamp = cutoff

\* '{} {}'.format(date, time) < until
Older(timestamp, cutoff) == TsLess(timestamp, cutoff)

\* action in ('install', 'upgrade', 'remove', 'purge')
Applicable(action) == action \in APPLICABLE

\* reversed(sorted_timestamps): the order the files are read in
FileOrder(timestamps) == Reversed(timestamps)

\* reversed(f.read().splitlines()): the order the lines of a file are read in
LineOrder(lines) == Reversed(lines)

\* rest.split(' ') and package_arch.split(':') unpack into three and two names
WellFormedRest(line) == Len(line) - 3 = 3 /\ Len(SplitColon(line[4])) = 2

\* the dict get_actions yields for a line
Action(line) ==
    [action |-> line[3],
     package |-> SplitColon(line[4])[1],
     arch |-> SplitColon(line[4])[2],
     fromversion |-> line[5],
     toversion |-> line[6]]

\* main: the key of an action in the snapshot
SnapshotKey(action) == <<action.package, action.arch>>

\* A variant of Reduce in which the first action written for a key stays.
ReduceFirstWins(snap, action) ==
    IF DictHas(snap, SnapshotKey(action)) THEN snap
    ELSE DictSet(snap, SnapshotKey(action), action)

\* main: snapshot = {(action['package'], action['arch']): action for action in ...}
Reduce(snap, action) == DictSet(snap, SnapshotKey(action), action)

\* an exception nobody catches ends the run: Python exits with status 1
Raise(e) ==
    /\ error' = e
    /\ pc' = "raised"
    /\ exit_code' = 1

\* The body of the first loop: the first line of the next entry gives its place.
ScanFile ==
    /\ pc = "scan"
    /\ scan_i <= Len(log_files)
    /\ LET lines == log_files[scan_i] IN
       IF lines = <<>>
       THEN \* f.readline() returns '': the file is left out
            /\ scan_i' = scan_i + 1
            /\ UNCHANGED <<sorted_timestamps, timestamp_to_file, pc, error, exit_code>>
       ELSE IF NumParts(lines[1], 2) # 3
       THEN \* date, time, rest = ... does not unpack
            /\ Raise("ValueError")
            /\ UNCHANGED <<scan_i, sorted_timestamps, timestamp_to_file>>
       ELSE LET timestamp == Timestamp(lines[1]) IN
            /\ sorted_timestamps' =
                   Insert(sorted_timestamps,
                          bisect_left(sorted_timestamps, timestamp), timestamp)
            /\ IF DictHas(timestamp_to_file, timestamp)
               THEN /\ Raise("AssertionError")
                    /\ UNCHANGED <<scan_i, timestamp_to_file>>
               ELSE /\ timestamp_to_file' = DictSet(timestamp_to_file, timestamp, scan_i)
                    /\ scan_i' = scan_i + 1
                    /\ UNCHANGED <<pc, error, exit_code>>
    /\ UNCHANGED <<pos, yielded, snapshot, printed, system_calls>>
    /\ UNCHANGED <<arg_vars, pool_vars>>

\* The first loop is over: the second starts, or the generator is exhausted.
ScanDone ==
    /\ pc = "scan"
    /\ scan_i > Len(log_files)
    /\ pc' = IF sorted_timestamps = <<>> THEN "reduced" ELSE "read"
    /\ UNCHANGED <<scan_i, sorted_timestamps, timestamp_to_file, pos, yielded, snapshot,
                   error>>
    /\ UNCHANGED <<arg_vars, pool_vars, out_vars>>

\* the lines of the file the second loop is in, in the order it visits them
CurrentLines ==
    LineOrder(log_files[DictGet(timestamp_to_file, FileOrder(sorted_timestamps)[pos[1]])])

CurrentLine == CurrentLines[pos[2]]

\* the place after pos, and whether there is one
NextPos ==
    IF pos[2] < Len(CurrentLines) THEN <<pos[1], pos[2] + 1>> ELSE <<pos[1] + 1, 1>>

Exhausted(p) == p[1] > Len(sorted_timestamps)

\* A variant of ReadLine that passes over a line older than the cutoff and reads on.
ReadLineSkipsOlder ==
    /\ pc = "read"
    /\ LET line == CurrentLine IN
       IF NumParts(line, 3) # 4
       THEN /\ Raise("ValueError")
            /\ UNCHANGED <<pos, yielded, snapshot>>
       ELSE IF Applicable(line[3]) /\ ~Older(Timestamp(line), until) /\ ~WellFormedRest(line)
       THEN /\ Raise("ValueError")
            /\ UNCHANGED <<pos, yielded, snapshot>>
       ELSE /\ IF Applicable(line[3]) /\ ~Older(Timestamp(line), until)
               THEN /\ yielded' = Append(yielded, Action(line))
                    /\ snapshot' = Reduce(snapshot, Action(line))
               ELSE UNCHANGED <<yielded, snapshot>>
            /\ pos' = NextPos
            /\ pc' = IF Exhausted(NextPos) THEN "reduced" ELSE "read"
            /\ UNCHANGED <<error, exit_code>>
    /\ UNCHANGED <<scan_i, sorted_timestamps, timestamp_to_file, printed, system_calls>>
    /\ UNCHANGED <<arg_vars, pool_vars>>

\* The body of the second loop on one line; main puts a yielded action in the snapshot.
ReadLine ==
    /\ pc = "read"
    /\ LET line == CurrentLine IN
       IF NumParts(line, 3) # 4
       THEN \* date, time, action, rest = ... does not unpack
            /\ Raise("ValueError")
            /\ UNCHANGED <<pos, yielded, snapshot>>
       ELSE IF Older(Timestamp(line), until)
       THEN \* return
            /\ pc' = "reduced"
            /\ UNCHANGED <<pos, yielded, snapshot, error, exit_code>>
       ELSE IF Applicable(line[3]) /\ ~WellFormedRest(line)
       THEN /\ Raise("ValueError")
            /\ UNCHANGED <<pos, yielded, snapshot>>
       ELSE /\ IF Applicable(line[3])
               THEN /\ yielded' = Append(yielded, Action(line))
                    /\ snapshot' = Reduce(snapshot, Action(line))
               ELSE UNCHANGED <<yielded, snapshot>>
            /\ pos' = NextPos
            /\ pc' = IF Exhausted(NextPos) THEN "reduced" ELSE "read"
            /\ UNCHANGED <<error, exit_code>>
    /\ UNCHANGED <<scan_i, sorted_timestamps, timestamp_to_file, printed, system_calls>>
    /\ UNCHANGED <<arg_vars, pool_vars>>

-----------------------------------------------------------------------------
(* download_package, run by the executor's workers *)

\* A variant of build_filename with the version and the architecture swapped.
build_filename_swapped(package, version, arch) ==
    package \o "_" \o arch \o "_" \o version \o ".deb"

\* A variant of build_filename that leaves the package out of the name.
build_filename_no_package(package, version, arch) ==
    version \o "_" \o arch \o ".deb"

\* build_filename
build_filename(package, version, arch) ==
    package \o "_" \o version \o "_" \o arch \o ".deb"

\* the file a task downloads: build_filename(package, version, arch)
Filename(action) == build_filename(action.package, action.fromversion, action.arch)

TERMINAL == {"AlreadyPresent", "Fetched", "Failed"}

Terminal(k) == futures[k][2].state \in TERMINAL

\* A variant of max_workers: as many workers as futures.
unit_count == Len(futures)

\* ThreadPoolExecutor(max_workers=len(snapshot))
max_workers == Len(snapshot)

\* the tasks a worker is running
Running == {k \in 1..Len(futures) : futures[k][2].state \in {"index", "detail", "retrieve"}}

SetTask(k, state, requests) ==
    futures' = [futures EXCEPT ![k] = <<futures[k][1], [state |-> state, requests |-> requests]>>]

\* A variant of StartTask that does not look for the file.
StartTaskUnchecked(k) ==
    /\ pc = "wait"
    /\ futures[k][2].state = "submitted"
    /\ Cardinality(Running) < max_workers
    /\ SetTask(k, "index", 0)
    /\ UNCHANGED <<dir, failed, pc, error>>
    /\ UNCHANGED <<arg_vars, log_vars, out_vars>>

\* A free worker takes the task: os.path.exists(os.path.join(download_dir, filename))
StartTask(k) ==
    /\ pc = "wait"
    /\ futures[k][2].state = "submitted"
    /\ Cardinality(Running) < max_workers
    /\ IF Filename(futures[k][1]) \in dir
       THEN SetTask(k, "AlreadyPresent", 0)     \* 'We already have ...', returns
       ELSE SetTask(k, "index", 0)
    /\ UNCHANGED <<dir, failed, pc, error>>
    /\ UNCHANGED <<arg_vars, log_vars, out_vars>>

\* urlopen(search_results_url) and the search for the link of the version
FetchIndex(k) ==
    /\ pc = "wait"
    /\ futures[k][2].state = "index"
    /\ \/ SetTask(k, "detail", futures[k][2].requests + 1)
       \/ SetTask(k, "Failed", futures[k][2].requests + 1)    \* URLError, or no link
    /\ UNCHANGED <<dir, failed, pc, error>>
    /\ UNCHANGED <<arg_vars, log_vars, out_vars>>

\* urlopen(package_options_url) and the search for the link of the file
FetchDetail(k) ==
    /\ pc = "wait"
    /\ futures[k][2].state = "detail"
    /\ \/ SetTask(k, "retrieve", futures[k][2].requests + 1)
       \/ SetTask(k, "Failed", futures[k][2].requests + 1)    \* URLError, or no link
    /\ UNCHANGED <<dir, failed, pc, error>>
    /\ UNCHANGED <<arg_vars, log_vars, out_vars>>

\* urlretrieve(package_url, os.path.join(download_dir, filename))
Retrieve(k) ==
    /\ pc = "wait"
    /\ futures[k][2].state = "retrieve"
    /\ \/ /\ SetTask(k, "Fetched", futures[k][2].requests + 1)
          /\ dir' = dir \cup {Filename(futures[k][1])}
       \/ /\ SetTask(k, "Failed", futures[k][2].requests + 1)
          /\ \/ dir' = dir                                   \* the transfer never started
             \/ dir' = dir \cup {Filename(futures[k][1])}    \* it broke off: a partial file
    /\ UNCHANGED <<failed, pc, error>>
    /\ UNCHANGED <<arg_vars, log_vars, out_vars>>

-----------------------------------------------------------------------------
(* main, after the snapshot *)

NOTHING_TO_REVERT == "No package operations to revert"
COULD_NOT_DOWNLOAD == "The following packages couldn't be downloaded"

\* os.path.join(WORKING_DIR, 'apt-rollback-{}/'.format(args.timestamp).replace(' ', '_'))
download_dir ==
    "/tmp" \o "/" \o "apt-rollback-" \o ToString(until[1]) \o "_" \o ToString(until[2]) \o "/"

\* '{}:{}'.format(action['package'], action['arch'])
PackageArch(action) == action.package \o ":" \o action.arch

\* '{}:{} {}'.format(action['package'], action['arch'], action['fromversion'])
ReportLine(action) == PackageArch(action) \o " " \o action.fromversion

\* A variant of NeedsDownload that takes every target.
AnyTarget(action) == TRUE

\* action['action'] != 'install': the target needs the file of its old version
NeedsDownload(action) == action.action # "install"

\* if not len(snapshot): print('No package operations to revert'); exit(0)
NothingToRevert ==
    /\ pc = "reduced"
    /\ Len(snapshot) = 0
    /\ printed' = Append(printed, NOTHING_TO_REVERT)
    /\ exit_code' = 0
    /\ pc' = "exited"
    /\ UNCHANGED <<system_calls, error>>
    /\ UNCHANGED <<arg_vars, log_vars, pool_vars>>

\* os.mkdir(download_dir); the executor and the futures it is given
Submit ==
    /\ pc = "reduced"
    /\ Len(snapshot) # 0
    /\ futures' = [k \in 1..Len(SelectSeq(DictValues(snapshot), NeedsDownload)) |->
                      <<SelectSeq(DictValues(snapshot), NeedsDownload)[k],
                        [state |-> "submitted", requests |-> 0]>>]
    /\ pc' = "wait"
    /\ UNCHANGED <<dir, failed, error>>
    /\ UNCHANGED <<arg_vars, log_vars, out_vars>>

\* the orders a list of these tasks' actions can come in
Orders(S) ==
    {order \in [1..Cardinality(S) -> S] : \A k \in S : \E n \in 1..Cardinality(S) : order[n] = k}

\* future.exception()
Raised(k) == futures[k][2].state = "Failed"

\* A variant of AllCompleted: wait(..., return_when=FIRST_COMPLETED).
FirstCompleted == futures = <<>> \/ \E k \in 1..Len(futures) : Terminal(k)

\* the futures wait returns: by default it returns when all of them are done
AllCompleted == \A k \in 1..Len(futures) : Terminal(k)

\* A variant of FailedFutures that takes every future that is done.
DoneFutures == {k \in 1..Len(futures) : Terminal(k)}

\* [... for future in done if future.exception()]
FailedFutures == {k \in 1..Len(futures) : Raised(k)}

\* done, _ = wait(futures.keys()): every future is done;
\* failed = [futures[future] for future in done if future.exception()], done being a set
Join ==
    /\ pc = "wait"
    /\ AllCompleted
    /\ \E order \in Orders(FailedFutures) :
          failed' = [n \in 1..Len(order) |-> futures[order[n]][1]]
    /\ pc' = "joined"
    /\ UNCHANGED <<futures, dir, error>>
    /\ UNCHANGED <<arg_vars, log_vars, out_vars>>

\* if failed and not args.force: the report of the failed packages, exit(1)
Blocked ==
    /\ pc = "joined"
    /\ failed # <<>> /\ ~force
    /\ printed' = printed \o <<COULD_NOT_DOWNLOAD>> \o [n \in 1..Len(failed) |-> ReportLine(failed[n])]
    /\ exit_code' = 1
    /\ pc' = "exited"
    /\ UNCHANGED <<system_calls, error>>
    /\ UNCHANGED <<arg_vars, log_vars, pool_vars>>

\* A variant of DropFailed that leaves the failed targets in the snapshot.
KeepFailed(snap, actions) == snap

\* for action in failed: del snapshot[(action['package'], action['arch'])]
RECURSIVE DropFailed(_, _)
DropFailed(snap, actions) ==
    IF actions = <<>> THEN snap
    ELSE DropFailed(DictDel(snap, SnapshotKey(Head(actions))), Tail(actions))

\* installs
Installs(snap) ==
    LET targets == SelectSeq(DictValues(snap), NeedsDownload)
    IN  [n \in 1..Len(targets) |-> download_dir \o Filename(targets[n])]

\* uninstalls
Uninstalls(snap) ==
    LET targets == SelectSeq(DictValues(snap), LAMBDA action : action.action = "install")
    IN  [n \in 1..Len(targets) |-> PackageArch(targets[n])]

\* dpkg_command, as its words
dpkg_command(installs, uninstalls) ==
    <<"dpkg">> \o (IF installs # <<>> THEN <<"-i">> ELSE <<>>) \o installs
               \o (IF uninstalls # <<>> THEN <<"-P">> ELSE <<>>) \o uninstalls

\* the failed targets leave the snapshot and nothing is left: exit(0)
NothingLeft ==
    /\ pc = "joined"
    /\ ~(failed # <<>> /\ ~force)
    /\ snapshot' = DropFailed(snapshot, failed)
    /\ Len(snapshot') = 0
    /\ printed' = Append(printed, NOTHING_TO_REVERT)
    /\ exit_code' = 0
    /\ pc' = "exited"
    /\ UNCHANGED <<scan_i, sorted_timestamps, timestamp_to_file, pos, yielded>>
    /\ UNCHANGED <<system_calls, error>>
    /\ UNCHANGED <<arg_vars, pool_vars>>

\* A variant of HandOff without the test of lines 175-177.
HandOffUnguarded ==
    /\ pc = "joined"
    /\ ~(failed # <<>> /\ ~force)
    /\ snapshot' = DropFailed(snapshot, failed)
    /\ system_calls' = Append(system_calls,
                              dpkg_command(Installs(snapshot'), Uninstalls(snapshot')))
    /\ exit_code' = 0
    /\ pc' = "exited"
    /\ UNCHANGED <<scan_i, sorted_timestamps, timestamp_to_file, pos, yielded>>
    /\ UNCHANGED <<printed, error>>
    /\ UNCHANGED <<arg_vars, pool_vars>>

\* the failed targets leave the snapshot and dpkg is given the rest: os.system(dpkg_command)
HandOff ==
    /\ pc = "joined"
    /\ ~(failed # <<>> /\ ~force)
    /\ snapshot' = DropFailed(snapshot, failed)
    /\ Len(snapshot') # 0
    /\ system_calls' = Append(system_calls,
                              dpkg_command(Installs(snapshot'), Uninstalls(snapshot')))
    /\ exit_code' = 0
    /\ pc' = "exited"
    /\ UNCHANGED <<scan_i, sorted_timestamps, timestamp_to_file, pos, yielded>>
    /\ UNCHANGED <<printed, error>>
    /\ UNCHANGED <<arg_vars, pool_vars>>

-----------------------------------------------------------------------------
(* get_actions and the snapshot, on their own. *)

Start ==
    /\ pc = "scan"
    /\ scan_i = 1
    /\ sorted_timestamps = <<>>
    /\ timestamp_to_file = <<>>
    /\ pos = <<1, 1>>
    /\ yielded = <<>>
    /\ error = "none"
    /\ snapshot = <<>>
    /\ futures = <<>>
    /\ failed = <<>>
    /\ printed = <<>>
    /\ exit_code = RUNNING
    /\ system_calls = <<>>

LogInit ==
    /\ Listing(MaxFiles, MaxLines)
    /\ until \in Timestamps
    /\ force = FALSE
    /\ dir = {}
    /\ run = 1
    /\ fetched_before = {}
    /\ Start

LogNext == ScanFile \/ ScanDone \/ ReadLine

LogSpec == LogInit /\ [][LogNext]_vars

-----------------------------------------------------------------------------
(* The whole command, run again on the download_dir the run before left. *)

\* the files the tasks of this run fetched
FetchedNow == {Filename(futures[k][1]) : k \in {j \in 1..Len(futures) : futures[j][2].state = "Fetched"}}

Rerun ==
    /\ pc = "exited" /\ exit_code = 1     \* '... and run this command again'
    /\ run < MaxRuns
    /\ run' = run + 1
    /\ fetched_before' = fetched_before \cup FetchedNow
    /\ force' \in BOOLEAN
    /\ pc' = "scan"
    /\ scan_i' = 1
    /\ sorted_timestamps' = <<>>
    /\ timestamp_to_file' = <<>>
    /\ pos' = <<1, 1>>
    /\ yielded' = <<>>
    /\ error' = "none"
    /\ snapshot' = <<>>
    /\ futures' = <<>>
    /\ failed' = <<>>
    /\ printed' = <<>>
    /\ exit_code' = RUNNING
    /\ system_calls' = <<>>
    /\ UNCHANGED <<log_files, until, dir>>

Init ==
    /\ Listing(MaxRunFiles, MaxRunLines)
    /\ until \in Timestamps
    /\ force \in BOOLEAN
    /\ dir = {}                          \* os.mkdir(download_dir) makes it
    /\ run = 1
    /\ fetched_before = {}
    /\ Start

\* download_package, from where task k is
download_package(k) == StartTask(k) \/ FetchIndex(k) \/ FetchDetail(k) \/ Retrieve(k)

Next ==
    \/ ScanFile \/ ScanDone \/ ReadLine
    \/ NothingToRevert \/ Submit
    \/ \E k \in 1..Len(futures) : StartTask(k)
    \/ \E k \in 1..Len(futures) : FetchIndex(k)
    \/ \E k \in 1..Len(futures) : FetchDetail(k)
    \/ \E k \in 1..Len(futures) : Retrieve(k)
    \/ Join \/ Blocked \/ NothingLeft \/ HandOff
    \/ Rerun

Spec == Init /\ [][Next]_vars

-----------------------------------------------------------------------------
(* What the log files hold, read off the files themselves. *)

WithFirstLine == {i \in 1..Len(log_files) : log_files[i] # <<>>}

HasTimestamp(line) == Len(line) >= 2

FirstTimestamp(i) == Timestamp(log_files[i][1])

\* The first lines carry pairwise distinct timestamps.
FirstLinesDistinct ==
    /\ \A i \in WithFirstLine : HasTimestamp(log_files[i][1])
    /\ \A i, j \in WithFirstLine : i # j => FirstTimestamp(i) # FirstTimestamp(j)

\* Two files have first lines with the same timestamp.
FirstLinesClash ==
    \E i, j \in WithFirstLine :
        /\ i # j
        /\ HasTimestamp(log_files[i][1]) /\ HasTimestamp(log_files[j][1])
        /\ FirstTimestamp(i) = FirstTimestamp(j)

\* A line of fewer than four fields, the empty line among them.
IsShortLine(line) == Len(line) < 4

HasShortLine == \E i \in 1..Len(log_files) : \E k \in 1..Len(log_files[i]) :
                    IsShortLine(log_files[i][k])

IsActionLine(line) ==
    Len(line) >= 3 /\ line[3] \in {"install", "upgrade", "remove", "purge"}

RECURSIVE Flatten(_)
Flatten(ss) == IF ss = <<>> THEN <<>> ELSE Head(ss) \o Flatten(Tail(ss))

\* The files by descending first-line timestamp (when these are distinct).
NewestFileFirst ==
    [r \in 1..Cardinality(WithFirstLine) |->
        CHOOSE i \in WithFirstLine :
            Cardinality({j \in WithFirstLine :
                            TsLess(FirstTimestamp(i), FirstTimestamp(j))}) = r - 1]

\* Their lines, each file's last line first.
LinesNewestFirst ==
    Flatten([r \in 1..Len(NewestFileFirst) |->
                LET f == log_files[NewestFileFirst[r]]
                IN  [k \in 1..Len(f) |-> f[Len(f) + 1 - k]]])

IsOlderLine(line) == HasTimestamp(line) /\ TsLess(Timestamp(line), until)

\* The lines before the first one that is older than the cutoff.
MergeWindow ==
    LET lines == LinesNewestFirst
        cut == IF \E k \in 1..Len(lines) : IsOlderLine(lines[k])
               THEN CHOOSE k \in 1..Len(lines) :
                        /\ IsOlderLine(lines[k])
                        /\ \A m \in 1..(k - 1) : ~IsOlderLine(lines[m])
               ELSE Len(lines) + 1
    IN  SubSeq(lines, 1, cut - 1)

\* The actions of the lines of the window.
ExpectedStream ==
    LET kept == SelectSeq(MergeWindow, IsActionLine)
    IN  [k \in 1..Len(kept) |-> Action(kept[k])]

\* get_actions is over: it returned, or raised.
GetActionsOver == pc \notin {"scan", "read"}
GetActionsReturned == pc = "reduced"

-----------------------------------------------------------------------------
(* C1: for files whose first lines carry pairwise distinct timestamps,     *)
(* get_actions yields exactly the actions of the files taken by descending *)
(* first-line timestamp, each file's lines last to first, cut at the first *)
(* line older than the cutoff.                                             *)
C1_MergedStream ==
    (GetActionsOver /\ FirstLinesDistinct)
        => (error = "none" /\ yielded = ExpectedStream)

\* The same for the log files none of whose lines is short: there the stream
\* is as C1 says, so C1 fails on the short lines alone.
MergedStreamOfFullLines ==
    (GetActionsOver /\ FirstLinesDistinct /\ ~HasShortLine)
        => (error = "none" /\ yielded = ExpectedStream)

\* What get_actions has yielded is at any time the beginning of that stream.
YieldedIsPrefix ==
    FirstLinesDistinct =>
        /\ Len(yielded) <= Len(ExpectedStream)
        /\ yielded = SubSeq(ExpectedStream, 1, Len(yielded))

-----------------------------------------------------------------------------
(* The log files in time order. *)

Keys == Packages \X Archs

KeyOf(action) == <<action.package, action.arch>>

\* The places <<file, line>> of the lines of the log files.
Places == {<<i, n>> \in (1..Len(log_files)) \X (1..MaxLines + 1) : n <= Len(log_files[i])}

LineAt(place) == log_files[place[1]][place[2]]

\* Every line has a timestamp, no line of a file is older than the line before
\* it, and a file that starts later holds nothing older than an earlier file.
Chronological ==
    /\ FirstLinesDistinct
    /\ \A p \in Places : HasTimestamp(LineAt(p))
    /\ \A p, q \in Places :
          /\ (p[1] = q[1] /\ p[2] < q[2])
                => ~TsLess(Timestamp(LineAt(q)), Timestamp(LineAt(p)))
          /\ (p[1] # q[1] /\ TsLess(FirstTimestamp(p[1]), FirstTimestamp(q[1])))
                => ~TsLess(Timestamp(LineAt(q)), Timestamp(LineAt(p)))

\* p was written before q, in files that are Chronological
WrittenBefore(p, q) ==
    \/ p[1] = q[1] /\ p[2] < q[2]
    \/ p[1] # q[1] /\ TsLess(FirstTimestamp(p[1]), FirstTimestamp(q[1]))

\* The places of the actions on a key at or after the cutoff.
InWindow(key) ==
    {p \in Places : /\ IsActionLine(LineAt(p))
                    /\ KeyOf(Action(LineAt(p))) = key
                    /\ ~TsLess(Timestamp(LineAt(p)), until)}

-----------------------------------------------------------------------------
(* C2: the snapshot main builds maps every (package, arch) key that has an *)
(* action in the window to the earliest action of the window on that key:  *)
(* the last one get_actions yields for it.  The window is the lines        *)
(* get_actions visits before the first line older than the cutoff; in log  *)
(* files that are in time order these are the lines at or after the cutoff *)
(* and the target is the first operation on the key at or after it.  The   *)
(* same package on two architectures has two targets.                      *)
C2_EarliestPerKey ==
    GetActionsReturned =>
        /\ LET stream == ExpectedStream IN
           /\ \A key \in Keys :
                 DictHas(snapshot, key) <=> \E n \in 1..Len(stream) : KeyOf(stream[n]) = key
           /\ \A n \in 1..Len(stream) :
                 (\A m \in (n + 1)..Len(stream) : KeyOf(stream[m]) # KeyOf(stream[n]))
                     => DictGet(snapshot, KeyOf(stream[n])) = stream[n]
        /\ Chronological =>
              \A key \in Keys : \A p \in InWindow(key) :
                  (\A q \in InWindow(key) : q = p \/ WrittenBefore(p, q))
                      => /\ DictHas(snapshot, key)
                         /\ DictGet(snapshot, key) = Action(LineAt(p))

\* Two actions on one key were yielded, the snapshot holds the older one, and it
\* holds a target for the same package on another architecture.
C2_Witness ==
    /\ GetActionsReturned
    /\ \E n, m \in 1..Len(yielded) :
          /\ n < m
          /\ KeyOf(yielded[n]) = KeyOf(yielded[m])
          /\ yielded[n] # yielded[m]
          /\ DictGet(snapshot, KeyOf(yielded[m])) = yielded[m]
          /\ yielded[m].fromversion = NONE
          /\ \E e \in 1..Len(snapshot) :
                /\ snapshot[e][1][1] = yielded[m].package
                /\ snapshot[e][1][2] # yielded[m].arch

-----------------------------------------------------------------------------
(* C6: get_actions yields no action older than the cutoff, and a line it   *)
(* reaches whose timestamp equals the cutoff is not cut off: its action is *)
(* yielded.                                                                *)
C6_ClosedAtCutoff ==
    [][/\ Len(yielded') > Len(yielded)
            => /\ pc = "read"
               /\ ~TsLess(Timestamp(CurrentLine), until)
               /\ yielded' = Append(yielded, Action(CurrentLine))
       /\ (/\ pc = "read"
           /\ IsActionLine(CurrentLine)
           /\ Len(CurrentLine) = 6
           /\ Timestamp(CurrentLine) = until)
            => yielded' = Append(yielded, Action(CurrentLine))]_vars

\* An action dated at the cutoff has been reached and yielded.
C6_Witness ==
    /\ FirstLinesDistinct
    /\ \E n \in 1..Len(MergeWindow) :
          /\ IsActionLine(MergeWindow[n])
          /\ Timestamp(MergeWindow[n]) = until
          /\ \E m \in 1..Len(yielded) : yielded[m] = Action(MergeWindow[n])
    /\ \E n \in 1..Len(LinesNewestFirst) : IsOlderLine(LinesNewestFirst[n])

-----------------------------------------------------------------------------
(* C7: when two log files have first lines with the same timestamp,        *)
(* get_actions fails with the assertion error before it yields anything,   *)
(* and no snapshot, download or dpkg command follows.                      *)
C7_ClashRaises ==
    (GetActionsOver /\ FirstLinesClash)
        => /\ error = "AssertionError"
           /\ yielded = <<>>
           /\ snapshot = <<>>
           /\ futures = <<>>
           /\ system_calls = <<>>

\* What holds of such files: get_actions raises, one error or the other, and
\* nothing is yielded.
ClashYieldsNothing ==
    FirstLinesClash =>
        /\ yielded = <<>> /\ snapshot = <<>> /\ futures = <<>> /\ system_calls = <<>>
        /\ GetActionsOver => error \in {"AssertionError", "ValueError"}

-----------------------------------------------------------------------------
(* C8: a line of fewer than four fields is skipped without an error, and   *)
(* get_actions goes on with the next line.                                 *)
C8_ShortLineSkipped ==
    [][(pc = "read" /\ IsShortLine(CurrentLine))
            => (error' = "none" /\ yielded' = yielded /\ pos' = NextPos)]_vars

-----------------------------------------------------------------------------
(* The dpkg command and the targets, read off the state. *)

Place(words, w) ==
    IF \E n \in 1..Len(words) : words[n] = w
    THEN CHOOSE n \in 1..Len(words) : words[n] = w /\ \A m \in 1..(n - 1) : words[m] # w
    ELSE 0

\* the words after -i, up to -P
InstallList(command) ==
    IF Place(command, "-i") = 0 THEN <<>>
    ELSE SubSeq(command, Place(command, "-i") + 1,
                IF Place(command, "-P") = 0 THEN Len(command) ELSE Place(command, "-P") - 1)

\* the words after -P
RemoveList(command) ==
    IF Place(command, "-P") = 0 THEN <<>>
    ELSE SubSeq(command, Place(command, "-P") + 1, Len(command))

Count(words, w) == Cardinality({n \in 1..Len(words) : words[n] = w})

Range(seq) == {seq[n] : n \in 1..Len(seq)}

\* the entry of a target in the remove list, and in the install list
RemoveEntry(target) == target.package \o ":" \o target.arch

InstallEntry(target) ==
    "/tmp/apt-rollback-" \o ToString(until[1]) \o "_" \o ToString(until[2]) \o "/"
        \o target.package \o "_" \o target.fromversion \o "_" \o target.arch \o ".deb"

\* the install list entries a key could have, whatever the version
InstallEntriesOf(target) ==
    {InstallEntry([target EXCEPT !.fromversion = v]) : v \in Versions \cup {NONE}}

\* The rollback targets: the last action get_actions yielded for each key.
Targets ==
    {yielded[n] : n \in {m \in 1..Len(yielded) :
                            \A l \in (m + 1)..Len(yielded) : KeyOf(yielded[l]) # KeyOf(yielded[m])}}

\* The download units, and how the task of a unit ended.
Units == {t \in Targets : t.action # "install"}

TaskOf(unit) == CHOOSE k \in 1..Len(futures) : futures[k][1] = unit

UnitFailed(unit) == futures[TaskOf(unit)][2].state = "Failed"

FailedUnits == {u \in Units : UnitFailed(u)}

Survivors == {t \in Targets : t.action = "install" \/ ~UnitFailed(t)}

\* the dpkg command was run
HandedOff == system_calls # <<>>

-----------------------------------------------------------------------------
(* C3: in the dpkg command main runs, every target left in the snapshot is *)
(* in exactly one list: an install target once as package:arch in the      *)
(* remove list and not in the install list, any other target once as the   *)
(* path of package_fromversion_arch.deb in the install list and not in the *)
(* remove list; the lists hold nothing else.                               *)
C3_OneListPerTarget ==
    HandedOff =>
        LET installs == InstallList(system_calls[1])
            removes == RemoveList(system_calls[1])
        IN  /\ \A e \in 1..Len(snapshot) :
                  LET target == snapshot[e][2] IN
                  IF target.action = "install"
                  THEN /\ Count(removes, RemoveEntry(target)) = 1
                       /\ Range(installs) \cap InstallEntriesOf(target) = {}
                  ELSE /\ Count(installs, InstallEntry(target)) = 1
                       /\ Range(installs) \cap InstallEntriesOf(target) = {InstallEntry(target)}
                       /\ Count(removes, RemoveEntry(target)) = 0
            /\ Len(installs) + Len(removes) = Len(snapshot)
            /\ Len(system_calls[1]) =
                  1 + (IF installs = <<>> THEN 0 ELSE 1 + Len(installs))
                    + (IF removes = <<>> THEN 0 ELSE 1 + Len(removes))

\* A command with a file to install and a package to remove.
C3_Witness ==
    /\ HandedOff
    /\ InstallList(system_calls[1]) # <<>>
    /\ RemoveList(system_calls[1]) # <<>>

-----------------------------------------------------------------------------
(* C4: without -f, when a download failed, dpkg is never run, the report   *)
(* lists the failed units, each once as 'package:arch fromversion', and    *)
(* no other, and the run exits with status 1.                              *)
C4_StrictBlocks ==
    (~force /\ pc \in {"wait", "joined", "exited"} /\ FailedUnits # {})
        => /\ ~HandedOff
           /\ pc = "exited" =>
                 /\ exit_code = 1
                 /\ Len(printed) = 1 + Cardinality(FailedUnits)
                 /\ printed[1] = COULD_NOT_DOWNLOAD
                 /\ Range(Tail(printed)) =
                       {u.package \o ":" \o u.arch \o " " \o u.fromversion : u \in FailedUnits}

\* A strict run that ended with one unit failed and another fetched.
C4_Witness ==
    /\ ~force /\ pc = "exited"
    /\ \E u, v \in Units :
          UnitFailed(u) /\ futures[TaskOf(v)][2].state = "Fetched"
    /\ Len(printed) = 2

-----------------------------------------------------------------------------
(* C5: with -f, the targets whose download failed leave the snapshot       *)
(* before the command is built: dpkg is run with the entries of the        *)
(* targets that did not fail and of no other, and it is run when one is    *)
(* left.                                                                   *)
C5_PermissiveDrops ==
    (force /\ pc = "exited")
        => LET left == Survivors IN
           /\ HandedOff <=> left # {}
           /\ HandedOff =>
                 /\ Range(InstallList(system_calls[1])) =
                        {InstallEntry(t) : t \in {s \in left : s.action # "install"}}
                 /\ Range(RemoveList(system_calls[1])) =
                        {RemoveEntry(t) : t \in {s \in left : s.action = "install"}}
                 /\ Len(InstallList(system_calls[1])) + Len(RemoveList(system_calls[1]))
                        = Cardinality(left)
                 /\ Range(DictValues(snapshot)) = left

\* A run with -f that gave dpkg one target after another one failed.
C5_Witness ==
    /\ force /\ pc = "exited" /\ HandedOff
    /\ \E u \in Units : UnitFailed(u)
    /\ \E u \in Units : ~UnitFailed(u)

-----------------------------------------------------------------------------
(* C9: when the file of a unit is already in download_dir, download_package *)
(* makes no request, writes nothing and returns, so the unit is not         *)
(* reported as failed; a second run on the same download_dir makes no       *)
(* request for the units the first run fetched.                             *)
C9_AlreadyPresent ==
    [][\A k \in 1..Len(futures) :
          /\ (/\ pc = "wait"
              /\ futures[k][2].state = "submitted"
              /\ futures'[k] # futures[k]
              /\ Filename(futures[k][1]) \in dir)
                => /\ futures'[k][2] = [state |-> "AlreadyPresent", requests |-> 0]
                   /\ dir' = dir
          /\ (pc = "wait" /\ futures[k][2].state = "AlreadyPresent")
                => /\ futures[k][2].requests = 0
                   /\ futures'[k] = futures[k]
                   /\ pc' = "joined" => \A n \in 1..Len(failed') : failed'[n] # futures[k][1]
          /\ (pc = "wait" /\ Filename(futures[k][1]) \in fetched_before)
                => futures[k][2] \in {[state |-> "submitted", requests |-> 0],
                                      [state |-> "AlreadyPresent", requests |-> 0]}]_vars

\* A second run has found the file that the first run fetched.
C9_Witness ==
    /\ run = 2
    /\ \E k \in 1..Len(futures) :
          /\ Filename(futures[k][1]) \in fetched_before
          /\ futures[k][2].state = "AlreadyPresent"
    /\ pc = "exited"

-----------------------------------------------------------------------------
(* C10: main computes the failed units only when every task it submitted   *)
(* has returned or raised; a task that failed stops no other task: a task  *)
(* that is not over is taken or can take its next step; every unit has one *)
(* task, which ends as AlreadyPresent, Fetched or Failed.                  *)
C10_JoinAfterAll ==
    /\ pc \in {"wait", "joined", "exited"} =>
          LET units == Units IN
          /\ \A u \in units : Cardinality({k \in 1..Len(futures) : futures[k][1] = u}) = 1
          /\ \A k \in 1..Len(futures) : futures[k][1] \in units
    /\ pc \in {"joined", "exited"} =>
          /\ \A k \in 1..Len(futures) :
                futures[k][2].state \in {"AlreadyPresent", "Fetched", "Failed"}
          /\ Range(failed) = FailedUnits
          /\ Len(failed) = Cardinality(FailedUnits)
    /\ pc = "wait" =>
          \A k \in 1..Len(futures) :
              futures[k][2].state \notin {"AlreadyPresent", "Fetched", "Failed"}
                  => ENABLED download_package(k)

\* The failed units have been computed: one task failed at its first request and
\* another fetched its file.
C10_Witness ==
    /\ pc = "joined"
    /\ \E k, j \in 1..Len(futures) :
          /\ futures[k][2] = [state |-> "Failed", requests |-> 1]
          /\ futures[j][2].state = "Fetched"
    /\ Len(failed) = 1

-----------------------------------------------------------------------------
(* What the user sees of a run. *)

\* what download_package printed for task k: 'We already have ...' when the file
\* was there, 'Downloading ...' once both links were found, 'Finished ...' after
\* the transfer
TaskOutput(k) ==
    LET task == futures[k][2] IN
    IF task.state = "AlreadyPresent" THEN <<"We already have " \o Filename(futures[k][1])>>
    ELSE IF task.state = "Fetched" THEN <<"Downloading", "Finished downloading">>
    ELSE IF task.state = "retrieve" \/ (task.state = "Failed" /\ task.requests = 3)
         THEN <<"Downloading">>
    ELSE <<>>

\* the lines main printed, the lines the tasks printed, the exit status and the
\* commands given to os.system
Outcome ==
    [main |-> printed,
     tasks |-> {TaskOutput(k) : k \in 1..Len(futures)} \ {<<>>},
     status |-> exit_code,
     commands |-> system_calls]

\* the outcome of the run that finds nothing to revert
NoWorkOutcome ==
    [main |-> <<NOTHING_TO_REVERT>>, tasks |-> {}, status |-> 0, commands |-> <<>>]

\* The three situations of a run that is over.
NoWorkNeeded == pc = "exited" /\ yielded = <<>>
WorkBlocked == pc = "exited" /\ ~force /\ FailedUnits # {}
PartiallySkipped == pc = "exited" /\ force /\ FailedUnits # {}

-----------------------------------------------------------------------------
(* C11: the outcome of a run tells the three situations apart: a run with  *)
(* nothing to revert has the outcome NoWorkOutcome, a blocked run exits    *)
(* with status 1 after the report of the failed units, and a run with -f   *)
(* that dropped failed targets has neither of these outcomes, also when    *)
(* every target was dropped.                                               *)
C11_OutcomesDistinct ==
    /\ NoWorkNeeded => Outcome = NoWorkOutcome
    /\ WorkBlocked =>
          /\ Outcome.status = 1
          /\ Outcome.main # <<>> /\ Outcome.main[1] = COULD_NOT_DOWNLOAD
          /\ Outcome.commands = <<>>
    /\ PartiallySkipped =>
          /\ Outcome # NoWorkOutcome
          /\ Outcome.status # 1

\* What holds: the run with nothing to revert and the blocked run have the
\* outcomes above, and the run with -f differs from both whenever a target is
\* left or a task printed a line; it has the outcome NoWorkOutcome exactly when
\* every target was dropped and no task printed anything.
OutcomesDistinctWhenLeft ==
    /\ NoWorkNeeded => Outcome = NoWorkOutcome
    /\ WorkBlocked =>
          /\ Outcome.status = 1
          /\ Outcome.main # <<>> /\ Outcome.main[1] = COULD_NOT_DOWNLOAD
          /\ Outcome.commands = <<>>
    /\ PartiallySkipped =>
          /\ Outcome.status = 0
          /\ Outcome = NoWorkOutcome <=> (Survivors = {} /\ Outcome.tasks = {})

-----------------------------------------------------------------------------
(* C12: with -f, when the failed targets have left the snapshot and none   *)
(* is left, main prints 'No package operations to revert', exits with      *)
(* status 0 and runs no dpkg command; dpkg is run only when a target is    *)
(* left, and at most once in a run.                                        *)
C12_NothingLeftNoSink ==
    /\ Len(system_calls) <= 1
    /\ HandedOff => (Survivors # {} /\ Len(snapshot) >= 1)
    /\ (force /\ pc = "exited" /\ Targets # {} /\ Survivors = {})
          => /\ printed = <<NOTHING_TO_REVERT>>
             /\ exit_code = 0
             /\ system_calls = <<>>
             /\ snapshot = <<>>

\* A run with -f has ended after its two targets failed and were dropped.
C12_Witness ==
    /\ force /\ pc = "exited"
    /\ Cardinality(Targets) = 2
    /\ Survivors = {}
    /\ printed = <<NOTHING_TO_REVERT>>

-----------------------------------------------------------------------------
(* Where get_actions stopped. *)

\* the number of lines the second loop went through before place p
VisitedBefore(p) ==
    Len(Flatten([r \in 1..(p[1] - 1) |-> log_files[NewestFileFirst[r]]])) + p[2] - 1

\* get_actions returned at line 67, on the line at pos
StoppedAtOlder == pc = "reduced" /\ ~Exhausted(pos)

\* a line with an action dated at or after the cutoff
IsInWindowAction(line) ==
    IsActionLine(line) /\ Len(line) = 6 /\ ~TsLess(Timestamp(line), until)

-----------------------------------------------------------------------------
(* C13: once get_actions meets a line older than the cutoff the stream     *)
(* ends: when get_actions has returned, the lines it went through hold no  *)
(* line older than the cutoff, it stopped on the first such line if there  *)
(* is one, and it yielded the actions of the lines before that line and    *)
(* of no line after it, whatever the timestamps of the lines after it.     *)
C13_StreamEnds ==
    pc = "reduced" =>
        LET lines == LinesNewestFirst
            n == IF Exhausted(pos) THEN Len(lines) ELSE VisitedBefore(pos)
            before == SelectSeq(SubSeq(lines, 1, n), IsActionLine)
        IN  /\ \A m \in 1..n : ~IsOlderLine(lines[m])
            /\ ~Exhausted(pos) => (n < Len(lines) /\ IsOlderLine(lines[n + 1]))
            /\ yielded = [k \in 1..Len(before) |-> Action(before[k])]

\* get_actions stopped on an older line, and left behind an action at or after
\* the cutoff in the same file and another one in a file it never opened.
C13_Witness ==
    /\ StoppedAtOlder
    /\ LET lines == LinesNewestFirst
           n == VisitedBefore(pos)
           inFile == Len(log_files[NewestFileFirst[pos[1]]]) - pos[2]
       IN  /\ \E m \in (n + 2)..(n + 1 + inFile) :
                 IsInWindowAction(lines[m]) /\ Action(lines[m]) \notin Range(yielded)
           /\ \E m \in (n + 2 + inFile)..Len(lines) :
                 IsInWindowAction(lines[m]) /\ Action(lines[m]) \notin Range(yielded)

-----------------------------------------------------------------------------
(* The actions of the window, counted. *)

\* the places of the lines with an action dated at or after the cutoff
InWindowPlaces == {p \in Places : IsInWindowAction(LineAt(p))}

\* how many times get_actions yielded this action
TimesYielded(action) == Cardinality({n \in 1..Len(yielded) : yielded[n] = action})

\* how many lines of the window hold this action
TimesLogged(action) == Cardinality({p \in InWindowPlaces : Action(LineAt(p)) = action})

-----------------------------------------------------------------------------
(* C14: for log files in time order (every file's lines by non-decreasing  *)
(* timestamp, the files not overlapping), get_actions yields every line    *)
(* with an action dated at or after the cutoff, in any file, exactly once, *)
(* and nothing else.                                                       *)
C14_NoInWindowLoss ==
    (GetActionsOver /\ Chronological)
        => /\ Len(yielded) = Cardinality(InWindowPlaces)
           /\ \A p \in InWindowPlaces :
                 TimesYielded(Action(LineAt(p))) = TimesLogged(Action(LineAt(p)))

\* The same for the log files none of whose lines is short: there no action of
\* the window is lost, so C14 fails on the short lines alone.
NoInWindowLossOfFullLines ==
    (GetActionsOver /\ Chronological /\ ~HasShortLine)
        => /\ error = "none"
           /\ Len(yielded) = Cardinality(InWindowPlaces)
           /\ \A p \in InWindowPlaces :
                 TimesYielded(Action(LineAt(p))) = TimesLogged(Action(LineAt(p)))

\* Log files in time order, in two files, with actions of the window in both and
\* a line before the cutoff: all of the window was yielded.
FullLinesWindowYielded ==
    /\ GetActionsReturned /\ Chronological /\ ~HasShortLine
    /\ Cardinality(WithFirstLine) >= 2
    /\ \A i \in WithFirstLine : \E p \in InWindowPlaces : p[1] = i
    /\ \E p \in Places : IsOlderLine(LineAt(p))
    /\ Len(yielded) = Cardinality(InWindowPlaces)

-----------------------------------------------------------------------------
(* The names dpkg writes.  dpkg accepts '_' in a package name, and neither *)
(* in a version nor in an architecture.                                    *)

DpkgPackages == {"p", "p_1", "p_1_1"}
DpkgVersions == {"1", "1.1"}
DpkgArchs == {"a", "a-1"}

\* the download units over these names
DpkgUnits == DpkgPackages \X DpkgVersions \X DpkgArchs

\* Units of different (package, arch) keys have different file names.
DpkgFilenamesDistinct ==
    \A u, v \in DpkgUnits :
        (u[1] # v[1] \/ u[3] # v[3])
            => build_filename(u[1], u[2], u[3]) # build_filename(v[1], v[2], v[3])

-----------------------------------------------------------------------------
-----------------------------------------------------------------------------
(* The executor is alive from the submission to the end of the wait. *)
PoolCreated == pc \in {"wait", "joined"}

(* C16, as stated: the pool has exactly as many workers as there are       *)
(* download units, the targets that are not installs.                      *)
C16_PoolSizedToUnits ==
    PoolCreated => max_workers = Cardinality(Units)

(* C16, amended: the pool has as many workers as the snapshot has targets, *)
(* installs among them: at least one, at least as many as there are        *)
(* download units, and every unit has a task of its own, so no more tasks  *)
(* run at a time than there are units.                                     *)
C16_PoolSizedToTargets ==
    PoolCreated =>
        /\ max_workers = Cardinality(Targets)
        /\ max_workers >= 1
        /\ max_workers >= Cardinality(Units)
        /\ Len(futures) = Cardinality(Units)
        /\ Cardinality(Running) <= Cardinality(Units)

\* A pool of two workers for one download unit: the other target is an install.
C16_Witness ==
    /\ pc = "wait"
    /\ Cardinality(Units) = 1
    /\ max_workers = 2
    /\ Cardinality(Running) = 1

-----------------------------------------------------------------------------
\* the targets of kind install
InstallTargets == {t \in Targets : t.action = "install"}

(* C17: a failed download never touches a target of kind install: no task  *)
(* is submitted for one, none is in failed or in the report, each stays in *)
(* the snapshot, and the remove list of every dpkg command holds           *)
(* package:arch once for each of them and nothing else, whichever units    *)
(* failed.                                                                 *)
C17_InstallsUntouched ==
    /\ \A k \in 1..Len(futures) : futures[k][1].action # "install"
    /\ \A n \in 1..Len(failed) : failed[n].action # "install"
    /\ \A t \in InstallTargets :
          /\ DictHas(snapshot, KeyOf(t)) /\ DictGet(snapshot, KeyOf(t)) = t
          /\ (t.package \o ":" \o t.arch \o " " \o t.fromversion) \notin Range(printed)
    /\ HandedOff =>
          /\ Range(RemoveList(system_calls[1])) =
                 {t.package \o ":" \o t.arch : t \in InstallTargets}
          /\ Len(RemoveList(system_calls[1])) = Cardinality(InstallTargets)

\* dpkg was given the package to remove after the download of another target failed.
C17_Witness ==
    /\ HandedOff /\ force
    /\ FailedUnits # {}
    /\ InstallTargets # {}
    /\ Len(RemoveList(system_calls[1])) = 1
    /\ InstallList(system_calls[1]) = <<>>

=============================================================================
